---- MODULE Spec2Model ----
(***************************************************************************)
(* Model of the request-dispatch engine of stress-test                     *)
(* (internal/runner/runner.go): RunWithOptions, RunForDuration and         *)
(* RunForDurationWithRate.  One behaviour of the model is one call of one  *)
(* of the three entry operations; the goroutines of the call (main,        *)
(* workers, ticket enqueuer / paced generator), the timer and the caller's *)
(* cancellation are interleaved at the granularity of their channel,       *)
(* mutex and context operations.                                           *)
(* The caller's layer (Report.RPS, the pacer's interval, the `ramp` and    *)
(* `curl` commands) is modelled by specifications of its own over the same *)
(* variables: RpsSpec, IntervalSpec, RampSpec and CurlSpec.                *)
(***************************************************************************)
EXTENDS Integers, FiniteSets, Sequences, TLC

\* ---------------------------------------------------------------- bounds
MaxConc == 2        \* largest requested concurrency
MaxTotal == 3       \* largest `total` of a count-bounded run
MaxAttempts == 3    \* exchanges a duration-bounded run is followed for
MaxTicks == 3       \* ticks of the pacer a paced run is followed for
JobsCap == 2        \* capacity of the paced jobs channel (1024 in the source), scaled

Workers == 1..MaxConc
Codes == {200, 500}
Modes == {"count", "duration", "rate"}

VARIABLES
    mode,           \* which entry operation was called
    total,          \* argument total (count mode)
    concurrency,    \* argument concurrency, as requested by the caller
    rps,            \* argument rps (rate mode)
    always200,      \* the endpoint answers every exchange with 200
    buildOK,        \* http.NewRequestWithContext succeeds for (method, targetURL)
    ctxDone,        \* ctx has been cancelled
    deadlineElapsed,\* the timer of time.After(d) has fired
    endChan,        \* number of values waiting in the channel `end`
    tickChan,       \* number of values waiting in ticker.C
    ticks,          \* ticks delivered so far
    jobs,           \* number of buffered values in the channel `jobs`
    jobsClosed,     \* close(jobs) has run
    enqI,           \* loop variable i of the enqueuer goroutine
    permits,        \* history: permits the generator sent, and those sent after a stop signal
    helperPc,       \* enqueuer (count) / paced generator (rate)
    mainPc,         \* the calling goroutine
    pc,             \* per worker
    out,            \* per worker: outcome it is about to record
    tmp,            \* per worker: the value of rep it read inside the lock
    mu,             \* sync.Mutex: 0 when free, else the holder
    wg,             \* sync.WaitGroup counter
    rep,            \* the Report being built
    stamped,        \* rep.Duration has been assigned
    retErr,         \* the error value returned with the Report ("unset" before the return)
    attempts,       \* history: request attempts begun by the workers
    lap,            \* parity of the loop iterations made beyond MaxAttempts
    rpsRecv,        \* the Report value Report.RPS is called on
    rpsRet,         \* what Report.RPS returned
    flags,          \* the parsed flags of a `ramp` invocation
    ramp,           \* the `ramp` command's RunE: position, phase index, phases run, error
    curl,           \* parseCurlArgs: its arguments, loop index, results so far
    pacer           \* the rate a paced run is called with and the ticker interval made of it

params == <<mode, total, concurrency, rps, always200, buildOK>>
\* the caller's layer: Report.RPS, the `ramp` and `curl` commands, the pacer's interval
cli == <<rpsRecv, rpsRet, flags, ramp, curl, pacer>>
timers == <<deadlineElapsed, endChan, tickChan, ticks>>
chans == <<jobs, jobsClosed, enqI, permits>>
vars == <<params, ctxDone, timers, chans, helperPc, mainPc, pc, out, tmp, mu, wg,
          rep, stamped, retErr, attempts, lap, cli>>

\* ------------------------------------------------------------ the Report
EmptyCounts == [c \in {} |-> 0]

\* (mutation) the Report starts with TotalRequests 0 whatever total is
NewReportZeroTotal(tot) ==
    [TotalRequests |-> 0, Succeeded200 |-> 0, StatusCounts |-> EmptyCounts, Errors |-> 0]

NewReport(tot) ==
    [TotalRequests |-> tot, Succeeded200 |-> 0, StatusCounts |-> EmptyCounts, Errors |-> 0]

NoTmp == NewReport(0)

RECURSIVE SumOver(_, _)
SumOver(f, S) ==
    IF S = {} THEN 0
    ELSE LET c == CHOOSE x \in S : TRUE IN f[c] + SumOver(f, S \ {c})

SumCounts(sc) == SumOver(sc, DOMAIN sc)

\* (mutation) the count of a code is set to 1 instead of incremented
IncCountNoRead(sc, code) ==
    IF code \in DOMAIN sc THEN [sc EXCEPT ![code] = 1] ELSE sc @@ (code :> 1)

\* rep.StatusCounts[code]++ on a Go map: a missing key reads as 0
IncCount(sc, code) ==
    IF code \in DOMAIN sc THEN [sc EXCEPT ![code] = @ + 1] ELSE sc @@ (code :> 1)

\* (mutation) the failure path forgets to count the failure
RecordErrorDropped(r, seen) == r

\* (mutation) a failure is also counted in TotalRequests
RecordErrorCounted(r, seen) ==
    [r EXCEPT !.Errors = seen.Errors + 1, !.TotalRequests = seen.TotalRequests + 1]

\* the statements between mu.Lock() and mu.Unlock() of the failure paths
RecordError(r, seen) == [r EXCEPT !.Errors = seen.Errors + 1]

\* (mutation) every completed exchange is counted as a 200
RecordResponseAllOK(m, r, seen, code) ==
    [r EXCEPT !.TotalRequests = IF m = "count" THEN @ ELSE seen.TotalRequests + 1,
              !.StatusCounts = IncCount(seen.StatusCounts, code),
              !.Succeeded200 = seen.Succeeded200 + 1]

\* the statements between mu.Lock() and mu.Unlock() after a completed
\* exchange; only the duration modes count TotalRequests here
RecordResponse(m, r, seen, code) ==
    [r EXCEPT !.TotalRequests = IF m = "count" THEN @ ELSE seen.TotalRequests + 1,
              !.StatusCounts = IncCount(seen.StatusCounts, code),
              !.Succeeded200 = IF code = 200 THEN seen.Succeeded200 + 1 ELSE @]

Record(m, r, seen, o) ==
    IF o.err THEN RecordError(r, seen) ELSE RecordResponse(m, r, seen, o.code)

\* ------------------------------------------------------------- helpers
\* what one attempt yields: (resp, err) of http.NewRequestWithContext / client.Do
Failure == [err |-> TRUE, code |-> 0]
Success(c) == [err |-> FALSE, code |-> c]
NoOut == [err |-> FALSE, code |-> 0]

\* (mutation) a concurrency of 0 is let through
CoerceNegativeOnly(c) == IF c < 0 THEN 1 ELSE c

\* if concurrency < 1 { concurrency = 1 }
Coerce(c) == IF c < 1 THEN 1 ELSE c

\* where a worker's loop begins: `for range jobs` or the select of RunForDuration
LoopHead(m) == IF m = "duration" THEN "check" ELSE "recv"

\* (mutation) the worker never looks at the context
CtxErrIgnored == FALSE

\* ctx.Err() != nil, the check at the top of the body of `for range jobs`
CtxErr == ctxDone

\* (mutation) the enqueuer's select has no <-ctx.Done() case
EnqMayLeaveNoCtx == enqI >= total

\* (mutation) the enqueuer's loop runs while i <= total
EnqHasTicketOffByOne == enqI <= total

\* the enqueuer's loop condition i < total: there is a ticket left to send
EnqHasTicket == enqI < total

\* (mutation) the enqueuer stays in its loop when i == total
EnqMayLeaveOffByOne == enqI > total \/ ctxDone

\* the enqueuer leaves its loop: i < total fails, or the select takes <-ctx.Done()
EnqMayLeave == enqI >= total \/ ctxDone

\* (mutation) the critical sections are entered without the lock
MuAlwaysFree == TRUE

\* (mutation) only a negative rate is refused
RateInvalidNegativeOnly == mode = "rate" /\ rps < 0

\* if rps <= 0 { return rep, nil } of RunForDurationWithRate
RateInvalid == mode = "rate" /\ rps <= 0

\* (mutation) the generator's selects have no <-end case
GenEndReadyNever == FALSE

\* `case <-end` of the generator's selects can be taken
GenEndReady == endChan = 1

\* (mutation) `for range jobs` ends as soon as the channel is closed
RangeEndsOnClose == jobsClosed

\* `for range jobs` ends: the channel is closed and holds no value
RangeEnds == jobsClosed /\ jobs = 0

\* mu.Lock() can be acquired
MuFree == mu = 0

\* what client.Do can return for one exchange
Outcomes ==
    (IF always200 THEN {Success(200)} ELSE {Success(c) : c \in Codes} \cup {Failure})
        \cup (IF ctxDone THEN {Failure} ELSE {})

\* (mutation) the caller stops waiting while one worker is still running
JoinReadyEarly == wg <= 1 /\ (mode = "rate" => helperPc = "done")

\* wg.Wait() (and <-genDone in the paced mode) lets the caller through
JoinReady == wg = 0 /\ (mode = "rate" => helperPc = "done")

\* ------------------------------------------------------ the caller's layer
\* time.Second, in nanoseconds, the unit of time.Duration
Second == 1000000000

\* variant: RPS without the guard on Duration
RPSUnguarded(rr) == [num |-> rr.TotalRequests, per |-> rr.Duration]

\* Report.RPS as an exact rate: `num` requests per `per` nanoseconds
\* (float64(TotalRequests) / Duration.Seconds(), without the rounding)
RPS(rr) ==
    IF rr.Duration <= 0
    THEN [num |-> 0, per |-> Second]
    ELSE [num |-> rr.TotalRequests, per |-> rr.Duration]

\* the defaults of the flags of `ramp`
DefaultSteps == 3
DefaultStartConcurrency == 5
DefaultStepConcurrency == 5
DefaultRequestsPerStep == 100
DefaultPerStepDuration == 0
DefaultRps == 0
DefaultStepRps == 0

DefaultFlags ==
    [url |-> "", steps |-> DefaultSteps, startConcurrency |-> DefaultStartConcurrency,
     stepConcurrency |-> DefaultStepConcurrency, requestsPerStep |-> DefaultRequestsPerStep,
     perStepDuration |-> DefaultPerStepDuration, rps |-> DefaultRps,
     stepRps |-> DefaultStepRps, methodOK |-> TRUE, headersOK |-> TRUE, outputOK |-> TRUE]

\* RunE of `ramp` before its first statement
RampStart == [pc |-> "start", i |-> 0, phases |-> <<>>, err |-> "unset"]

\* the validations of RunE of `ramp`, in their order; "nil" when all pass
RampValidate(f) ==
    CASE f.url = "" -> "url is required"
      [] f.url = "bad" -> "invalid url"
      [] f.steps <= 0 -> "steps must be > 0"
      [] f.startConcurrency <= 0 -> "start-concurrency must be > 0"
      [] f.requestsPerStep > 0 /\ (f.perStepDuration > 0 \/ f.rps > 0) ->
            "requests mode: do not set per-step-duration or rps"
      [] f.requestsPerStep <= 0 /\ f.perStepDuration <= 0 ->
            "must set requests-per-step or per-step-duration"
      [] ~f.methodOK -> "unsupported method"
      [] ~f.headersOK -> "invalid header"
      [] OTHER -> "nil"

\* the engine operation phase i of `ramp` calls, with its arguments
RampPhase(f, i) ==
    LET conc == f.startConcurrency + i * f.stepConcurrency
        rpsPhase == f.rps + i * f.stepRps
    IN  IF f.requestsPerStep > 0
        THEN [op |-> "RunWithOptions", concurrency |-> conc, rate |-> 0]
        ELSE IF rpsPhase > 0
             THEN [op |-> "RunForDurationWithRate", concurrency |-> conc, rate |-> rpsPhase]
             ELSE [op |-> "RunForDuration", concurrency |-> conc, rate |-> 0]

\* ------------------------------------------------- the `curl` command
\* strings.ToUpper, on the argument strings of the model
ToUpper(s) ==
    CASE s = "get" -> "GET"
      [] s = "put" -> "PUT"
      [] s = "-d" -> "-D"
      [] s = "-i" -> "-I"
      [] s = "https://u" -> "HTTPS://U"
      [] OTHER -> s

\* strings.SplitN(kv, ":", 2)
SplitHeader(kv) == IF kv = "https://u" THEN <<"https", "//u">> ELSE <<kv>>

\* strings.HasPrefix(a, "http://") || strings.HasPrefix(a, "https://")
LooksLikeURL(a) == a = "https://u"

\* headers.Set(k, v): the values of k are replaced by v
HeaderSet(h, k, v) == Append(SelectSeq(h, LAMBDA e : e[1] # k), <<k, v>>)

\* parseCurlArgs before its loop; `explicit` is history: the methods asked
\* for by -X/--request and -I/--head, in order.  i is 1-based here.
CurlBegin(args) ==
    [pc |-> "loop", args |-> args, i |-> 1, method |-> "GET", target |-> "",
     headers |-> <<>>, bodies |-> <<>>, include |-> FALSE, err |-> "unset",
     explicit |-> <<>>]

CurlIdle == CurlBegin(<<>>)

\* return "", "", nil, "", false, errors.New(e)
CurlFail(c, e) ==
    [c EXCEPT !.pc = "done", !.method = "", !.target = "", !.headers = <<>>,
              !.bodies = <<>>, !.include = FALSE, !.err = e]

\* if method == http.MethodGet { method = http.MethodPost }
DataMethod(c) == IF c.method = "GET" THEN "POST" ELSE c.method

\* one iteration of the loop of parseCurlArgs: the switch on args[i]
CurlCase(c) ==
    LET a == c.args[c.i]
        hasValue == c.i + 1 <= Len(c.args)
        v == c.args[c.i + 1]
    IN  CASE a \in {"-X", "--request"} ->
                IF ~hasValue THEN CurlFail(c, "-X/--request requires a value")
                ELSE [c EXCEPT !.method = ToUpper(v), !.explicit = Append(@, ToUpper(v)),
                               !.i = @ + 2]
          [] a \in {"-H", "--header"} ->
                IF ~hasValue THEN CurlFail(c, "-H/--header requires a value")
                ELSE IF Len(SplitHeader(v)) # 2 THEN CurlFail(c, "invalid header format")
                ELSE IF SplitHeader(v)[1] = "" THEN CurlFail(c, "invalid header key")
                ELSE [c EXCEPT !.headers = Append(@, SplitHeader(v)), !.i = @ + 2]
          [] a \in {"-d", "--data", "--data-raw", "--data-binary", "--data-ascii"} ->
                IF ~hasValue THEN CurlFail(c, "-d/--data* requires a value")
                ELSE [c EXCEPT !.bodies = Append(@, v), !.method = DataMethod(c),
                               !.i = @ + 2]
          [] a \in {"-A", "--user-agent"} ->
                IF ~hasValue THEN CurlFail(c, "-A/--user-agent requires a value")
                ELSE [c EXCEPT !.headers = HeaderSet(@, "User-Agent", v), !.i = @ + 2]
          [] a \in {"-I", "--head"} ->
                [c EXCEPT !.method = "HEAD", !.explicit = Append(@, "HEAD"), !.i = @ + 1]
          [] a = "-i" -> [c EXCEPT !.include = TRUE, !.i = @ + 1]
          [] a = "--url" ->
                IF ~hasValue THEN CurlFail(c, "--url requires a value")
                ELSE [c EXCEPT !.target = v, !.i = @ + 2]
          [] OTHER ->
                IF LooksLikeURL(a) /\ c.target = ""
                THEN [c EXCEPT !.target = a, !.i = @ + 1]
                ELSE [c EXCEPT !.i = @ + 1]

\* --------------------------------------------------- the pacer's interval
\* time.Nanosecond, the unit of time.Duration
Nanosecond == 1

\* what time.Duration(x) yields for a float64 x that int64 cannot hold (the
\* quotient of a tiny or NaN rate): implementation-dependent, here one value
\* of each sign
OutOfRange == {0 - Second, 0, Second}

\* time.Duration(float64(time.Second) / rps) for the rate n/d per second
Quotients(rt) == IF rt.fits THEN {(Second * rt.d) \div rt.n} ELSE OutOfRange

\* (mutation) the interval is used as computed
TickerIntervalUnclamped(q) == q

\* if tickerInterval <= 0 { tickerInterval = time.Nanosecond }
TickerInterval(q) == IF q <= 0 THEN Nanosecond ELSE q

PacerIdle == [pc |-> "start", rate |-> [n |-> 1, d |-> 1, fits |-> TRUE], quot |-> 0,
              interval |-> 0]

\* the state of an entry operation of the runner when it is called
RunInit ==
    /\ mode \in Modes
    /\ total \in (IF mode = "count" THEN 0..MaxTotal ELSE {0})
    /\ concurrency \in -1..MaxConc
    /\ rps \in (IF mode = "rate" THEN {-1, 0, 1} ELSE {0})
    /\ always200 \in BOOLEAN
    /\ buildOK \in BOOLEAN
    /\ ctxDone = FALSE
    /\ deadlineElapsed = FALSE
    /\ endChan = 0
    /\ tickChan = 0
    /\ ticks = 0
    /\ jobs = 0
    /\ jobsClosed = FALSE
    /\ enqI = 0
    /\ permits = [emitted |-> 0, late |-> 0]
    /\ helperPc = "none"
    /\ mainPc = "start"
    /\ pc = [w \in Workers |-> "idle"]
    /\ out = [w \in Workers |-> NoOut]
    /\ tmp = [w \in Workers |-> NoTmp]
    /\ mu = 0
    /\ wg = 0
    /\ rep = NewReport(IF mode = "count" THEN total ELSE 0)
    /\ stamped = FALSE
    /\ retErr = "unset"
    /\ attempts = 0
    /\ lap = 0

\* no call of the caller's layer is in progress
CliIdle ==
    /\ rpsRecv = [Duration |-> 0, TotalRequests |-> 0]
    /\ rpsRet = <<>>
    /\ flags = DefaultFlags
    /\ ramp = RampStart
    /\ curl = CurlIdle
    /\ pacer = PacerIdle

Init == RunInit /\ CliIdle

\* ---------------------------------------------------- the calling goroutine
\* RunForDurationWithRate with rps <= 0: return rep, nil before anything starts
ReturnZero ==
    /\ mainPc = "start"
    /\ RateInvalid
    /\ mainPc' = "returned"
    /\ retErr' = "nil"
    /\ UNCHANGED <<params, ctxDone, timers, chans, helperPc, pc, out, tmp, mu, wg,
                   rep, stamped, attempts, lap, cli>>

\* wg.Add(concurrency), go worker() x concurrency, go enqueuer / generator,
\* time.After(d), time.NewTicker
Start ==
    /\ mainPc = "start"
    /\ ~RateInvalid
    /\ wg' = Coerce(concurrency)
    /\ pc' = [w \in Workers |-> IF w <= Coerce(concurrency) THEN LoopHead(mode) ELSE "idle"]
    /\ helperPc' = CASE mode = "count" -> "run"
                     [] mode = "rate" -> "sel"
                     [] OTHER -> "none"
    /\ mainPc' = "wait"
    /\ UNCHANGED <<params, ctxDone, timers, chans, out, tmp, mu, rep, stamped, retErr,
                   attempts, lap, cli>>

\* wg.Wait(); rep.Duration = time.Since(start); return rep, nil
Return ==
    /\ mainPc = "wait"
    /\ JoinReady
    /\ stamped' = TRUE
    /\ mainPc' = "returned"
    /\ retErr' = "nil"
    /\ UNCHANGED <<params, ctxDone, timers, chans, helperPc, pc, out, tmp, mu, wg,
                   rep, attempts, lap, cli>>

\* ---------------------------------------------------------- environment
\* the caller's context is cancelled (explicitly or by its timeout)
Cancel ==
    /\ ~ctxDone
    /\ mainPc # "returned"
    /\ ctxDone' = TRUE
    /\ UNCHANGED <<params, timers, chans, helperPc, mainPc, pc, out, tmp, mu, wg,
                   rep, stamped, retErr, attempts, lap, cli>>

\* the timer behind `end := time.After(d)` fires: one value is sent on `end`
DeadlineFires ==
    /\ mode \in {"duration", "rate"}
    /\ mainPc = "wait"
    /\ ~deadlineElapsed
    /\ deadlineElapsed' = TRUE
    /\ endChan' = 1
    /\ UNCHANGED <<params, ctxDone, tickChan, ticks, chans, helperPc, mainPc, pc, out,
                   tmp, mu, wg, rep, stamped, retErr, attempts, lap, cli>>

\* the ticker delivers a tick on ticker.C (capacity 1)
Tick ==
    /\ mode = "rate"
    /\ mainPc = "wait"
    /\ tickChan = 0
    /\ ticks < MaxTicks
    /\ tickChan' = 1
    /\ ticks' = ticks + 1
    /\ UNCHANGED <<params, ctxDone, deadlineElapsed, endChan, chans, helperPc, mainPc,
                   pc, out, tmp, mu, wg, rep, stamped, retErr, attempts, lap, cli>>

\* ------------------------------------------------- helper goroutines
\* enqueuer of RunWithOptions leaves its loop (i == total, or <-ctx.Done()
\* chosen by the select); the deferred close(jobs) runs
EnqExit ==
    /\ helperPc = "run"
    /\ EnqMayLeave
    /\ jobsClosed' = TRUE
    /\ helperPc' = "done"
    /\ UNCHANGED <<params, ctxDone, timers, jobs, enqI, permits, mainPc, pc, out, tmp, mu, wg,
                   rep, stamped, retErr, attempts, lap, cli>>

\* outer select of the paced generator
GenSelect ==
    /\ helperPc = "sel"
    /\ \/ /\ ctxDone
          /\ helperPc' = "done" /\ jobsClosed' = TRUE
          /\ UNCHANGED <<endChan, tickChan>>
       \/ /\ GenEndReady
          /\ endChan' = 0
          /\ helperPc' = "done" /\ jobsClosed' = TRUE
          /\ UNCHANGED tickChan
       \/ /\ tickChan = 1
          /\ tickChan' = 0
          /\ helperPc' = "send"
          /\ UNCHANGED <<endChan, jobsClosed>>
    /\ UNCHANGED <<params, ctxDone, deadlineElapsed, ticks, jobs, enqI, permits, mainPc, pc, out,
                   tmp, mu, wg, rep, stamped, retErr, attempts, lap, cli>>

\* inner select of the paced generator, after a tick
GenSend ==
    /\ helperPc = "send"
    /\ \/ /\ jobs < JobsCap
          /\ jobs' = jobs + 1
          /\ permits' = [emitted |-> permits.emitted + 1,
                         late |-> permits.late + (IF deadlineElapsed \/ ctxDone THEN 1 ELSE 0)]
          /\ helperPc' = "sel"
          /\ UNCHANGED <<endChan, jobsClosed>>
       \/ /\ ctxDone
          /\ helperPc' = "done" /\ jobsClosed' = TRUE
          /\ UNCHANGED <<endChan, jobs, permits>>
       \/ /\ GenEndReady
          /\ endChan' = 0
          /\ helperPc' = "done" /\ jobsClosed' = TRUE
          /\ UNCHANGED <<jobs, permits>>
    /\ UNCHANGED <<params, ctxDone, deadlineElapsed, tickChan, ticks, enqI, mainPc, pc,
                   out, tmp, mu, wg, rep, stamped, retErr, attempts, lap, cli>>

\* ------------------------------------------------------------- workers
\* wg.Done() of the deferred call, on every way out of worker()
Exit(w) ==
    /\ pc' = [pc EXCEPT ![w] = "done"]
    /\ wg' = wg - 1

\* a request attempt begins: build the request, then either the failure
\* path of the construction or client.Do
Attempt(w) ==
    /\ attempts' = attempts + 1
    /\ IF buildOK
       THEN pc' = [pc EXCEPT ![w] = "do"] /\ out' = out
       ELSE pc' = [pc EXCEPT ![w] = "lock"] /\ out' = [out EXCEPT ![w] = Failure]
    /\ wg' = wg

\* `for range jobs` of RunWithOptions: unbuffered channel, the receive
\* meets the enqueuer's send `jobs <- struct{}{}`
RecvTicket(w) ==
    /\ mode = "count"
    /\ pc[w] = "recv"
    /\ helperPc = "run"
    /\ EnqHasTicket
    /\ enqI' = enqI + 1
    /\ pc' = [pc EXCEPT ![w] = "check"]
    /\ UNCHANGED <<params, ctxDone, timers, jobs, jobsClosed, permits, helperPc, mainPc, out, tmp,
                   mu, wg, rep, stamped, retErr, attempts, lap, cli>>

\* `for range jobs` of RunForDurationWithRate: buffered channel
RecvPermit(w) ==
    /\ mode = "rate"
    /\ pc[w] = "recv"
    /\ jobs > 0
    /\ jobs' = jobs - 1
    /\ pc' = [pc EXCEPT ![w] = "check"]
    /\ UNCHANGED <<params, ctxDone, timers, jobsClosed, enqI, permits, helperPc, mainPc, out, tmp,
                   mu, wg, rep, stamped, retErr, attempts, lap, cli>>

\* `for range jobs` ends: the channel is closed and drained
RecvClosed(w) ==
    /\ pc[w] = "recv"
    /\ RangeEnds
    /\ Exit(w)
    /\ UNCHANGED <<params, ctxDone, timers, chans, helperPc, mainPc, out, tmp, mu, rep,
                   stamped, retErr, attempts, lap, cli>>

\* if ctx.Err() != nil { return }, then the request is built
CheckCtx(w) ==
    /\ mode \in {"count", "rate"}
    /\ pc[w] = "check"
    /\ IF CtxErr
       THEN Exit(w) /\ UNCHANGED <<out, attempts>>
       ELSE Attempt(w)
    /\ UNCHANGED <<params, ctxDone, timers, chans, helperPc, mainPc, tmp, mu, rep, stamped,
                   retErr, lap, cli>>

\* select { case <-ctx.Done(): return; case <-end: return; default: } of
\* RunForDuration, then the request is built
CheckStop(w) ==
    /\ mode = "duration"
    /\ pc[w] = "check"
    /\ \/ /\ ctxDone
          /\ Exit(w)
          /\ UNCHANGED <<endChan, out, attempts>>
       \/ /\ endChan = 1
          /\ endChan' = 0
          /\ Exit(w)
          /\ UNCHANGED <<out, attempts>>
       \/ /\ ~ctxDone /\ endChan = 0
          /\ attempts < MaxAttempts
          /\ Attempt(w)
          /\ UNCHANGED endChan
    /\ UNCHANGED <<params, ctxDone, deadlineElapsed, tickChan, ticks, chans, helperPc,
                   mainPc, tmp, mu, rep, stamped, retErr, lap, cli>>

\* RunForDuration beyond the attempts the model follows: the stop check
\* finds neither channel ready and the worker goes round its loop once more;
\* the Report of such an iteration is not followed
CheckStopBeyond(w) ==
    /\ mode = "duration"
    /\ pc[w] = "check"
    /\ ~ctxDone /\ endChan = 0
    /\ attempts >= MaxAttempts
    /\ lap' = 1 - lap
    /\ UNCHANGED <<params, ctxDone, timers, chans, helperPc, mainPc, pc, out, tmp, mu, wg,
                   rep, stamped, retErr, attempts, cli>>

\* client.Do(req) returns
Do(w) ==
    /\ pc[w] = "do"
    /\ \E o \in Outcomes : out' = [out EXCEPT ![w] = o]
    /\ pc' = [pc EXCEPT ![w] = "lock"]
    /\ UNCHANGED <<params, ctxDone, timers, chans, helperPc, mainPc, tmp, mu, wg, rep,
                   stamped, retErr, attempts, lap, cli>>

\* mu.Lock() and the reads of the statements it protects
Lock(w) ==
    /\ pc[w] = "lock"
    /\ MuFree
    /\ mu' = w
    /\ tmp' = [tmp EXCEPT ![w] = rep]
    /\ pc' = [pc EXCEPT ![w] = "store"]
    /\ UNCHANGED <<params, ctxDone, timers, chans, helperPc, mainPc, out, wg, rep,
                   stamped, retErr, attempts, lap, cli>>

\* the writes of the protected statements, mu.Unlock(), and `continue` /
\* the end of the loop body
Store(w) ==
    /\ pc[w] = "store"
    /\ rep' = Record(mode, rep, tmp[w], out[w])
    /\ mu' = 0
    /\ tmp' = [tmp EXCEPT ![w] = NoTmp]
    /\ out' = [out EXCEPT ![w] = NoOut]
    /\ pc' = [pc EXCEPT ![w] = LoopHead(mode)]
    /\ UNCHANGED <<params, ctxDone, timers, chans, helperPc, mainPc, wg, stamped, retErr,
                   attempts, lap, cli>>

Worker(w) ==
    \/ RecvTicket(w)
    \/ RecvPermit(w)
    \/ RecvClosed(w)
    \/ CheckCtx(w)
    \/ CheckStop(w)
    \/ CheckStopBeyond(w)
    \/ Do(w)
    \/ Lock(w)
    \/ Store(w)

Next ==
    \/ ReturnZero
    \/ Start
    \/ Return
    \/ Cancel
    \/ DeadlineFires
    \/ Tick
    \/ EnqExit
    \/ GenSelect
    \/ GenSend
    \/ \E w \in Workers : Worker(w)

Spec == Init /\ [][Next]_vars

\* every goroutine that can run is scheduled, the timer fires, and an
\* exchange in flight completes; the caller need never cancel
FairSpec ==
    /\ Spec
    /\ WF_vars(ReturnZero \/ Start \/ Return)
    /\ WF_vars(DeadlineFires)
    /\ WF_vars(EnqExit \/ GenSelect \/ GenSend)
    /\ \A w \in Workers : WF_vars(Worker(w))

\* ------------------------------------------------- Report.RPS, called alone
MaxDur == 3         \* Durations from -MaxDur to MaxDur nanoseconds
MaxReq == 7         \* largest TotalRequests of a Report handed to RPS

RunIdle ==
    /\ RunInit
    /\ mode = "count" /\ total = 0 /\ concurrency = 1 /\ always200 /\ buildOK

RpsInit ==
    /\ RunIdle
    /\ rpsRecv \in [Duration : (0 - MaxDur)..MaxDur, TotalRequests : 0..MaxReq]
    /\ rpsRet = <<>>
    /\ flags = DefaultFlags
    /\ ramp = RampStart
    /\ curl = CurlIdle
    /\ pacer = PacerIdle

\* r.RPS()
CallRPS ==
    /\ rpsRet = <<>>
    /\ rpsRet' = <<RPS(rpsRecv)>>
    /\ UNCHANGED <<params, ctxDone, timers, chans, helperPc, mainPc, pc, out, tmp, mu, wg,
                   rep, stamped, retErr, attempts, lap, rpsRecv, flags, ramp,
                   curl, pacer>>

RpsSpec == RpsInit /\ [][CallRPS]_vars

\* ----------------------------------------------------- the `ramp` command
MaxSteps == 2       \* largest --steps

FlagValues ==
    [url : {"", "bad", "ok"}, steps : 0..MaxSteps, startConcurrency : {0, 1},
     stepConcurrency : {0, 1}, requestsPerStep : {0, DefaultRequestsPerStep},
     perStepDuration : {DefaultPerStepDuration, 1}, rps : {DefaultRps, 1},
     stepRps : {-1, DefaultStepRps, 1}, methodOK : BOOLEAN, headersOK : BOOLEAN,
     outputOK : BOOLEAN]

RampInit ==
    /\ RunIdle
    /\ rpsRecv = [Duration |-> 0, TotalRequests |-> 0]
    /\ rpsRet = <<>>
    /\ flags \in FlagValues
    /\ ramp = RampStart
    /\ curl = CurlIdle
    /\ pacer = PacerIdle

\* RunE: the validations; the first that fails is returned
RampBegin ==
    /\ ramp.pc = "start"
    /\ LET e == RampValidate(flags)
       IN  ramp' = IF e = "nil"
                   THEN [ramp EXCEPT !.pc = "loop"]
                   ELSE [ramp EXCEPT !.pc = "done", !.err = e]
    /\ UNCHANGED <<params, ctxDone, timers, chans, helperPc, mainPc, pc, out, tmp, mu, wg,
                   rep, stamped, retErr, attempts, lap, rpsRecv, rpsRet, flags,
                   curl, pacer>>

\* RunE: one iteration of the phase loop; the engine returns a nil error
RampStep ==
    /\ ramp.pc = "loop"
    /\ ramp.i < flags.steps
    /\ ramp' = [ramp EXCEPT !.phases = Append(@, RampPhase(flags, ramp.i)), !.i = @ + 1]
    /\ UNCHANGED <<params, ctxDone, timers, chans, helperPc, mainPc, pc, out, tmp, mu, wg,
                   rep, stamped, retErr, attempts, lap, rpsRecv, rpsRet, flags,
                   curl, pacer>>

\* RunE: after the last phase, the summary is written
RampEnd ==
    /\ ramp.pc = "loop"
    /\ ramp.i >= flags.steps
    /\ ramp' = [ramp EXCEPT !.pc = "done",
                            !.err = IF flags.outputOK THEN "nil" ELSE "unsupported output"]
    /\ UNCHANGED <<params, ctxDone, timers, chans, helperPc, mainPc, pc, out, tmp, mu, wg,
                   rep, stamped, retErr, attempts, lap, rpsRecv, rpsRet, flags,
                   curl, pacer>>

RampNext == RampBegin \/ RampStep \/ RampEnd

RampSpec == RampInit /\ [][RampNext]_vars

\* ----------------------------------------------------- the `curl` command
MaxArgs == 4        \* most arguments of a `curl` invocation

CurlTokens == {"-X", "-d", "-I", "-i", "-H", "get", "put", "https://u"}

CurlArgs == UNION {[1..n -> CurlTokens] : n \in 0..MaxArgs}

CurlInit ==
    /\ RunIdle
    /\ rpsRecv = [Duration |-> 0, TotalRequests |-> 0]
    /\ rpsRet = <<>>
    /\ flags = DefaultFlags
    /\ ramp = RampStart
    /\ \E args \in CurlArgs : curl = CurlBegin(args)
    /\ pacer = PacerIdle

\* parseCurlArgs: one iteration of `for i := 0; i < len(args); i++`
ParseCurlArg ==
    /\ curl.pc = "loop"
    /\ curl.i <= Len(curl.args)
    /\ curl' = CurlCase(curl)
    /\ UNCHANGED <<params, ctxDone, timers, chans, helperPc, mainPc, pc, out, tmp, mu, wg,
                   rep, stamped, retErr, attempts, lap, rpsRecv, rpsRet, flags, ramp,
                   pacer>>

\* parseCurlArgs: the loop is over, the bodies are joined, return
ParseCurlReturn ==
    /\ curl.pc = "loop"
    /\ curl.i > Len(curl.args)
    /\ curl' = [curl EXCEPT !.pc = "done", !.err = "nil"]
    /\ UNCHANGED <<params, ctxDone, timers, chans, helperPc, mainPc, pc, out, tmp, mu, wg,
                   rep, stamped, retErr, attempts, lap, rpsRecv, rpsRet, flags, ramp,
                   pacer>>

CurlNext == ParseCurlArg \/ ParseCurlReturn

CurlSpec == CurlInit /\ [][CurlNext]_vars

\* --------------------------------------------------- the pacer's interval
MaxRate == 60       \* largest small rate (per second or per two seconds)

RateValues ==
    [n : (1..MaxRate) \cup {Second, Second + 1}, d : {1, 2}, fits : {TRUE}]
        \cup {[n |-> 1, d |-> 1, fits |-> FALSE]}

IntervalInit ==
    /\ RunIdle
    /\ rpsRecv = [Duration |-> 0, TotalRequests |-> 0]
    /\ rpsRet = <<>>
    /\ flags = DefaultFlags
    /\ ramp = RampStart
    /\ curl = CurlIdle
    /\ \E rt \in RateValues : pacer = [PacerIdle EXCEPT !.rate = rt]

\* tickerInterval is computed and time.NewTicker(tickerInterval) is called
NewTicker ==
    /\ pacer.pc = "start"
    /\ \E q \in Quotients(pacer.rate) :
          pacer' = [pacer EXCEPT !.pc = "ticking", !.quot = q,
                                 !.interval = TickerInterval(q)]
    /\ UNCHANGED <<params, ctxDone, timers, chans, helperPc, mainPc, pc, out, tmp, mu, wg,
                   rep, stamped, retErr, attempts, lap, rpsRecv, rpsRet, flags, ramp,
                   curl>>

IntervalSpec == IntervalInit /\ [][NewTicker]_vars

\* ------------------------------------------------------------ shorthands
Returned == mainPc = "returned"
Exited(w) == pc[w] \in {"idle", "done"}
AllExited == \A w \in Workers : Exited(w)
HelperExited == helperPc \in {"none", "done"}
Recorded == SumCounts(rep.StatusCounts) + rep.Errors

\* ===================================================================== C1
\* C1: every returned Report satisfies
\* TotalRequests = (sum of the StatusCounts values) + Errors.
C1_Accounting == Returned => rep.TotalRequests = Recorded

\* ===================================================================== C2
\* C2: a count-bounded run against an endpoint that always answers 200, never
\* cancelled, makes exactly `total` exchanges and returns Succeeded200 = total,
\* StatusCounts = {200: total} (empty when total = 0) and Errors = 0, under
\* every interleaving of the workers.
C2_NoLostUpdate ==
    (Returned /\ mode = "count" /\ always200 /\ buildOK /\ ~ctxDone)
        => /\ attempts = total
           /\ rep.Succeeded200 = total
           /\ rep.Errors = 0
           /\ rep.StatusCounts = (IF total = 0 THEN EmptyCounts ELSE (200 :> total))

C2_Witness ==
    /\ Returned /\ mode = "count" /\ always200 /\ buildOK /\ ~ctxDone
    /\ total = MaxTotal /\ concurrency = MaxConc
    /\ rep.Succeeded200 = MaxTotal

\* ===================================================================== C3
\* C3: in a duration-bounded run whose context is never cancelled, once the
\* deadline has elapsed every worker exits and the run returns.
C3_DurationTerminates ==
    (mode = "duration" /\ deadlineElapsed) ~> (ctxDone \/ (Returned /\ AllExited))

\* ===================================================================== C4
\* C4: in a duration-bounded run, a worker that makes its stop check after
\* the deadline has fired starts no new exchange.
C4_NoStartAfterDeadline ==
    [][\A w \in Workers :
          (mode = "duration" /\ deadlineElapsed /\ pc[w] = "check")
              => pc'[w] \in {"check", "done"}]_vars

\* ===================================================================== C5
\* C5: a count-bounded run cancelled when fewer than `total` requests had
\* been issued returns TotalRequests < total.
C5_CancelledRunIsShort ==
    (Returned /\ mode = "count" /\ ctxDone /\ attempts < total)
        => rep.TotalRequests < total

\* ===================================================================== C6
\* C6: once the context is cancelled, every worker and the enqueuer or
\* paced generator eventually exit and the operation returns.
C6_CancelTerminates == ctxDone ~> (Returned /\ AllExited /\ HelperExited)

C6_Witness ==
    /\ Returned /\ ctxDone /\ AllExited /\ HelperExited
    /\ mode = "count" /\ enqI < total /\ attempts >= 1

\* ===================================================================== C7
\* C7: a worker whose stop check happens after the cancellation fired exits
\* without building or sending a request, whatever tickets or permits remain.
C7_NoRequestAfterCancel ==
    [][\A w \in Workers :
          (ctxDone /\ pc[w] = "check")
              => (pc'[w] \in {"check", "done"} /\ attempts' = attempts)]_vars

C7_Witness ==
    /\ mode = "count" /\ ctxDone /\ ~jobsClosed /\ enqI < total
    /\ \E w \in Workers : pc[w] = "done"

\* ===================================================================== C8
\* C8: the Report is returned, and Duration stamped, only after every started
\* worker has exited, and no counter of the Report changes afterwards.
C8_JoinBarrier ==
    /\ []((Returned \/ stamped) => AllExited)
    /\ [][(Returned \/ stamped) => rep' = rep]_vars

C8_Witness ==
    /\ stamped /\ Returned
    /\ \A w \in Workers : pc[w] = "done"
    /\ Recorded >= 2

\* ===================================================================== C9
\* C9: recording a failed attempt adds exactly one to Errors and nothing
\* else, the worker goes on to its next unit of work, the run is not
\* aborted, and the operation returns a nil error.
C9_FailureAbsorbed ==
    /\ [](Returned => retErr = "nil")
    /\ [][\A w \in Workers :
            (pc[w] = "store" /\ out[w].err /\ pc'[w] # "store")
                => /\ rep' = [rep EXCEPT !.Errors = @ + 1]
                   /\ pc'[w] = LoopHead(mode)
                   /\ wg' = wg /\ mainPc' = mainPc]_vars

C9_Witness ==
    /\ Coerce(concurrency) = 1
    /\ rep.Errors >= 1
    /\ pc[1] = "do"

\* ==================================================================== C10
\* C10: the returned TotalRequests equals the number of request attempts the
\* workers made, whatever their outcomes.
C10_IssuedCount == Returned => rep.TotalRequests = attempts

\* ==================================================================== C11
\* C11: recording a completed exchange with status code c adds one to
\* StatusCounts[c] (creating it at 1), adds one to Succeeded200 exactly when
\* c = 200 and leaves Errors and the other codes alone; recording a failed
\* exchange adds one to Errors and leaves StatusCounts and Succeeded200 alone.
C11_Classification ==
    [][\A w \in Workers :
          (pc[w] = "store" /\ pc'[w] # "store") =>
              LET c == out[w].code
                  old == rep.StatusCounts
                  new == rep'.StatusCounts
              IN  IF out[w].err
                  THEN /\ rep'.Errors = rep.Errors + 1
                       /\ new = old
                       /\ rep'.Succeeded200 = rep.Succeeded200
                  ELSE /\ DOMAIN new = DOMAIN old \cup {c}
                       /\ new[c] = (IF c \in DOMAIN old THEN old[c] ELSE 0) + 1
                       /\ \A k \in DOMAIN old \ {c} : new[k] = old[k]
                       /\ rep'.Succeeded200 = rep.Succeeded200 + (IF c = 200 THEN 1 ELSE 0)
                       /\ rep'.Errors = rep.Errors]_vars

C11_Witness ==
    /\ DOMAIN rep.StatusCounts = {200, 500}
    /\ rep.StatusCounts[500] = 2
    /\ rep.Succeeded200 = 1

\* ==================================================================== C12
\* C12: in a count-bounded run the attempts begun never exceed the tickets
\* handed out, which never exceed `total`; a worker waiting for a ticket when
\* the supply is closed exits without an attempt.
C12_BoundedSupply ==
    /\ [](mode = "count" => (attempts <= enqI /\ enqI <= total))
    /\ [][\A w \in Workers :
            (mode = "count" /\ pc[w] = "recv" /\ jobsClosed /\ pc'[w] # "recv")
                => (pc'[w] = "done" /\ attempts' = attempts)]_vars

C12_Witness ==
    /\ mode = "count" /\ Returned /\ ~ctxDone
    /\ total = 1 /\ concurrency = MaxConc
    /\ attempts = 1
    /\ \A w \in Workers : pc[w] = "done"

\* ==================================================================== C13
\* C13: RunForDurationWithRate with rps <= 0 starts no worker, generator,
\* timer or ticker, issues nothing, and returns the zero Report (Duration
\* never stamped) with a nil error in its first step.
C13_ZeroRate ==
    /\ []((mode = "rate" /\ rps <= 0) =>
            /\ \A w \in Workers : pc[w] = "idle"
            /\ helperPc = "none" /\ wg = 0
            /\ ~deadlineElapsed /\ ticks = 0 /\ tickChan = 0
            /\ attempts = 0
            /\ rep = NewReport(0) /\ ~stamped
            /\ (Returned => retErr = "nil"))
    /\ [][(mode = "rate" /\ rps <= 0 /\ mainPc = "start" /\ mainPc' # "start")
            => mainPc' = "returned"]_vars

C13_Witness == mode = "rate" /\ rps = 0 /\ concurrency = MaxConc /\ Returned

\* ==================================================================== C14
\* C14: a count-bounded run with total = 0 makes no attempt, keeps the zero
\* Report, and returns, for any concurrency.
C14_ZeroTotal ==
    /\ []((mode = "count" /\ total = 0) => (attempts = 0 /\ rep = NewReport(0)))
    /\ (mode = "count" /\ total = 0) ~> (Returned /\ retErr = "nil")

C14_Witness ==
    /\ mode = "count" /\ total = 0 /\ concurrency = MaxConc
    /\ Returned /\ ~ctxDone /\ stamped

\* ==================================================================== C15
\* C15: once the workers are started their number is max(1, concurrency),
\* and a run called with concurrency < 1 still returns.
C15_Coercion ==
    /\ []((mainPc # "start" /\ ~(mode = "rate" /\ rps <= 0)) =>
            Cardinality({w \in Workers : pc[w] # "idle"})
                = (IF concurrency >= 1 THEN concurrency ELSE 1))
    /\ (concurrency < 1) ~> Returned

C15_Witness ==
    /\ concurrency < 1 /\ Returned /\ ~ctxDone
    /\ pc[1] = "done"
    /\ attempts >= 2

\* ==================================================================== C16
\* C16: once the deadline or the cancellation has fired, the paced generator
\* puts no further permit into jobs.
C16_NoPermitAfterStop ==
    [][(mode = "rate" /\ (deadlineElapsed \/ ctxDone))
            => permits'.emitted = permits.emitted]_vars

\* ==================================================================== C17
\* C17: once the generator has stopped at the deadline (jobs is closed, the
\* context is not cancelled), no worker takes a permit and begins an exchange,
\* also when every permit left in jobs was sent before the deadline.
C17_NoWorkAfterPacerStop ==
    [][\A w \in Workers :
          (/\ mode = "rate" /\ jobsClosed /\ deadlineElapsed /\ ~ctxDone
           /\ permits.late = 0
           /\ pc[w] = "recv")
              => pc'[w] \in {"recv", "done"}]_vars

\* ==================================================================== C18
\* C18: a paced run with rps > 0 whose context is never cancelled returns,
\* and it returns only after the deadline, with the generator exited, jobs
\* closed, every worker exited and Duration stamped.
C18_PacedTerminates ==
    /\ []((mode = "rate" /\ rps > 0 /\ Returned /\ ~ctxDone) =>
            /\ deadlineElapsed
            /\ helperPc = "done" /\ jobsClosed
            /\ AllExited
            /\ stamped)
    /\ (mode = "rate" /\ rps > 0) ~> (ctxDone \/ (Returned /\ stamped))

C18_Witness ==
    /\ mode = "rate" /\ rps > 0 /\ concurrency = MaxConc
    /\ Returned /\ ~ctxDone
    /\ attempts >= 2

\* C19: Report.RPS returns 0 (requests per second) whenever Duration <= 0, also
\* for the zero Report, and otherwise the rate TotalRequests / Duration; the
\* divisor of the rate it returns is never zero.
C19_RPS ==
    rpsRet # <<>> =>
        LET q == rpsRet[1]
        IN  /\ q.per > 0
            /\ rpsRecv.Duration <= 0 => (q.num = 0 /\ q.per = Second)
            /\ rpsRecv.Duration > 0 =>
                    q.num * rpsRecv.Duration = rpsRecv.TotalRequests * q.per

C19_Witness ==
    /\ rpsRet # <<>>
    /\ rpsRecv.Duration = 0
    /\ rpsRecv.TotalRequests > 0

\* C20: a `ramp` invocation with --per-step-duration > 0 that leaves
\* --requests-per-step, --rps and --step-rps at their defaults, and is valid
\* otherwise, ends without error after running every phase with RunForDuration.
C20_DurationModeAccepted ==
    (/\ flags.url = "ok" /\ flags.steps > 0 /\ flags.startConcurrency > 0
     /\ flags.methodOK /\ flags.headersOK /\ flags.outputOK
     /\ flags.perStepDuration > 0
     /\ flags.requestsPerStep = DefaultRequestsPerStep
     /\ flags.rps = DefaultRps /\ flags.stepRps = DefaultStepRps
     /\ ramp.pc = "done")
        => /\ ramp.err = "nil"
           /\ Len(ramp.phases) = flags.steps
           /\ \A k \in 1..Len(ramp.phases) : ramp.phases[k].op = "RunForDuration"

\* C21: a valid `ramp` invocation with --per-step-duration > 0, --rps > 0 and
\* --requests-per-step 0 runs every phase i with RunForDurationWithRate at rate
\* rps + i*step-rps and concurrency start + i*step, whatever --step-rps is.
C21_RateModeEveryPhase ==
    (/\ flags.perStepDuration > 0 /\ flags.rps > 0 /\ flags.requestsPerStep = 0
     /\ ramp.pc = "done" /\ ramp.err = "nil")
        => /\ Len(ramp.phases) = flags.steps
           /\ \A k \in 1..Len(ramp.phases) :
                 /\ ramp.phases[k].op = "RunForDurationWithRate"
                 /\ ramp.phases[k].rate = flags.rps + (k - 1) * flags.stepRps
                 /\ ramp.phases[k].concurrency =
                        flags.startConcurrency + (k - 1) * flags.stepConcurrency

\* C22: after parseCurlArgs returned without error, the method is GET or (with
\* a -d flag) POST when no method flag was given, and it is the requested
\* method when exactly one -X/--request or -I/--head was given, wherever the
\* -d flags stand.
C22_ExplicitMethodWins ==
    (curl.pc = "done" /\ curl.err = "nil") =>
        /\ Len(curl.explicit) = 0 =>
                curl.method = (IF curl.bodies = <<>> THEN "GET" ELSE "POST")
        /\ Len(curl.explicit) = 1 => curl.method = curl.explicit[1]

\* C23: at most one worker is inside a Report-mutating section, that worker
\* holds the mutex, and the Report changes only by the step of the mutex's
\* holder that ends its section.
C23_MutualExclusion ==
    /\ [](/\ Cardinality({w \in Workers : pc[w] = "store"}) <= 1
          /\ \A w \in Workers : pc[w] = "store" => mu = w)
    /\ [][rep' # rep => \E w \in Workers : mu = w /\ pc[w] = "store" /\ mu' = 0]_vars

C23_Witness ==
    \E w, v \in Workers :
        /\ w # v
        /\ pc[w] = "store" /\ mu = w
        /\ pc[v] = "lock"
        /\ rep.Errors + SumCounts(rep.StatusCounts) >= 1

\* C24: in the paced mode at most one permit is emitted and not yet taken.
C24_BacklogAtMostOne == mode = "rate" => jobs <= 1

\* C25: a count-bounded run with total == 0 never starts a worker.
C25_NoWorkerForZeroTotal ==
    (mode = "count" /\ total = 0) => (wg = 0 /\ \A w \in Workers : pc[w] = "idle")

\* C26: the interval the ticker is created with is strictly positive; it is the
\* quotient 1 second / rate truncated to whole nanoseconds when that is
\* positive, and 1 nanosecond when the computation yields a value <= 0 (a rate
\* above 10^9 per second, or an out-of-range conversion).
C26_PositiveInterval ==
    pacer.pc = "ticking" =>
        /\ pacer.interval > 0
        /\ pacer.rate.fits => pacer.quot = (Second * pacer.rate.d) \div pacer.rate.n
        /\ pacer.quot > 0 => pacer.interval = pacer.quot
        /\ pacer.quot <= 0 => pacer.interval = Nanosecond
        /\ (pacer.rate.fits /\ pacer.rate.n > Second * pacer.rate.d)
                => pacer.interval = Nanosecond

C26_Witness ==
    /\ pacer.pc = "ticking"
    /\ pacer.rate.fits /\ pacer.rate.n = Second + 1 /\ pacer.rate.d = 1
    /\ pacer.quot = 0

\* C27: in the paced mode the attempts begun never exceed the permits the
\* generator has emitted, and a run that returns with its context not
\* cancelled has recorded one outcome per emitted permit.
C27_OneAttemptPerPermit ==
    mode = "rate" =>
        /\ attempts <= permits.emitted
        /\ (Returned /\ ~ctxDone) => Recorded = permits.emitted

C27_Witness ==
    /\ mode = "rate" /\ concurrency = MaxConc
    /\ Returned /\ ~ctxDone
    /\ permits.emitted >= 2 /\ Recorded = permits.emitted
    /\ rep.Errors >= 1

\* C28: a count-bounded run whose context is never cancelled returns, and at
\* its return all `total` tickets were handed out and
\* (sum of StatusCounts) + Errors = total = TotalRequests.
C28_CountRunComplete ==
    /\ []((mode = "count" /\ Returned /\ ~ctxDone) =>
            /\ enqI = total
            /\ Recorded = total
            /\ rep.TotalRequests = total)
    /\ (mode = "count") ~> (ctxDone \/ Returned)

C28_Witness ==
    /\ mode = "count" /\ Returned /\ ~ctxDone
    /\ total = MaxTotal /\ concurrency = MaxConc
    /\ rep.Errors >= 1 /\ rep.Succeeded200 >= 1
    /\ Recorded = total

\* C29: Succeeded200 equals StatusCounts[200] (0 when the key is absent), every
\* key of StatusCounts is a status code the endpoint answers with, and its
\* value is at least 1.
C29_StatusCounts ==
    /\ rep.Succeeded200 =
            (IF 200 \in DOMAIN rep.StatusCounts THEN rep.StatusCounts[200] ELSE 0)
    /\ DOMAIN rep.StatusCounts \subseteq (IF always200 THEN {200} ELSE Codes)
    /\ \A c \in DOMAIN rep.StatusCounts : rep.StatusCounts[c] >= 1

C29_Witness ==
    /\ DOMAIN rep.StatusCounts = Codes
    /\ rep.StatusCounts[200] >= 2
    /\ rep.Succeeded200 = rep.StatusCounts[200]

\* C30: in the two duration modes TotalRequests equals the sum of the
\* StatusCounts values, whatever Errors is.
C30_TotalIsCompleted ==
    mode \in {"duration", "rate"} => rep.TotalRequests = SumCounts(rep.StatusCounts)

C30_Witness ==
    /\ mode \in {"duration", "rate"}
    /\ rep.Errors >= 1
    /\ rep.TotalRequests >= 1
    /\ rep.TotalRequests = SumCounts(rep.StatusCounts)
====
